---- MODULE Spec2Model ----
(***************************************************************************)
(* A model of the sentiment analyzer's task manager                        *)
(* (agents/sentiment_analyzer/task_manager.py) and of the chat application *)
(* that calls it (apps/a2a_sentiment_app.py), and of the unified dashboard *)
(* (apps/unified_dashboard.py) that calls it and the other agents.         *)
(*                                                                         *)
(* A text is a sequence of tokens.  The four section labels and the words  *)
(* are single tokens; blanks, newlines, hyphens, commas, percent signs and *)
(* digits are one token per character, so the regular expressions of       *)
(* _extract_sentiment_data are modelled position by position.  No word     *)
(* token contains a hyphen, a comma, a digit or white space.               *)
(***************************************************************************)
EXTENDS Naturals, Sequences, FiniteSets, TLC

VARIABLES
    text,        \* the reply text handed to _extract_sentiment_data
    nlines,      \* number of lines the text was built from
    extracted,   \* TRUE once _extract_sentiment_data has run on text
    result,      \* the dictionary _extract_sentiment_data returned
    sessions,    \* InMemorySessionService: the keys (app_name, user_id, session_id) it holds
    creates,     \* history: how often create_session was invoked, per key
    refs,        \* history: how many process_task calls referenced each key
    uuids,       \* number of identifiers uuid.uuid4() has produced
    calls,       \* number of process_task calls made so far
    known,       \* the session identifiers the callers know
    req,         \* the process_task invocations in flight, per request slot
    messages,    \* chat app: st.session_state.messages
    chat_session_id,  \* chat app: st.session_state.session_id
    chat_user_id,     \* chat app: st.session_state.user_id
    convs,       \* chat app: number of conversation identifiers generated
    sends,       \* chat app: number of send_message calls made so far
    last,        \* chat app: the last send_message call (its input and return value), if any
    dash_session_id,   \* dashboard: st.session_state.session_id
    dash_messages,     \* dashboard: st.session_state.messages
    reddit_posts,      \* dashboard: st.session_state.reddit_posts
    current_summary,   \* dashboard: st.session_state.current_summary
    current_analysis,  \* dashboard: st.session_state.current_analysis
    audio_file,        \* dashboard: st.session_state.audio_file
    clicks,            \* dashboard: number of button handlers run so far
    invoked            \* dashboard: the send functions the last handler called, in order

extractVars == <<text, nlines, extracted, result>>

taskVars == <<sessions, creates, refs, uuids, calls, known, req>>

chatVars == <<messages, chat_session_id, chat_user_id, convs, sends, last>>

dashVars == <<dash_session_id, dash_messages, reddit_posts, current_summary, current_analysis,
              audio_file, clicks, invoked>>

vars == <<text, nlines, extracted, result, sessions, creates, refs, uuids, calls, known, req,
          messages, chat_session_id, chat_user_id, convs, sends, last,
          dash_session_id, dash_messages, reddit_posts, current_summary, current_analysis,
          audio_file, clicks, invoked>>

----------------------------------------------------------------------------
(* Bounds *)

MaxLines == 4
MaxEvents == 2
MaxCalls == 3
MaxSends == 2
MaxConversations == 2
MaxConcurrent == 2
MaxClicks == 2
MaxPostLines == 2
MaxTime == 2

----------------------------------------------------------------------------
(* Tokens *)

NL == "\n"
SP == " "
HYPHEN == "-"
COMMA == ","
PERCENT == "%"

Whitespace == {SP, NL}
Digits == {"0", "1", "2", "3", "4", "5", "6", "7", "8", "9"}

\* str.lower() and re.IGNORECASE, on the tokens that have upper-case letters
Lower(tok) ==
    CASE tok = "Overall Sentiment:" -> "overall sentiment:"
      [] tok = "Confidence:" -> "confidence:"
      [] tok = "CONFIDENCE:" -> "confidence:"
      [] tok = "Key Markers:" -> "key markers:"
      [] tok = "Analysis:" -> "analysis:"
      [] tok = "Positive" -> "positive"
      [] tok = "NEGATIVE" -> "negative"
      [] OTHER -> tok

\* the alternatives of the group (positive|negative|neutral)
SentimentWords == {"positive", "negative", "neutral"}

\* The lines a reply text is built from.
LineKinds ==
    { <<>>,
      <<"Overall Sentiment:", SP, "positive">>,
      <<"overall sentiment:", SP, "NEGATIVE">>,
      <<"Confidence:", SP, "8", "2">>,
      <<"Confidence:", SP, "9", "0", PERCENT>>,
      <<"Key Markers:">>,
      <<"Key Markers:", SP, "happy", COMMA, SP, "excited">>,
      <<HYPHEN, SP, "happy">>,
      <<HYPHEN, SP, "excited">>,
      <<HYPHEN, SP>>,
      <<SP, HYPHEN, SP, "happy">>,
      <<"Analysis:", SP, "upbeat">> }

----------------------------------------------------------------------------
(* String helpers *)

Min(S) == CHOOSE x \in S : \A y \in S : x <= y

\* s[i:] in Python
From(s, i) == SubSeq(s, i, Len(s))

Contains(s, tok) == \E i \in 1..Len(s) : s[i] = tok

\* str.strip()
RECURSIVE LStrip(_)
LStrip(s) ==
    IF s # <<>> /\ Head(s) \in Whitespace THEN LStrip(Tail(s)) ELSE s

RECURSIVE RStrip(_)
RStrip(s) ==
    IF s # <<>> /\ s[Len(s)] \in Whitespace
    THEN RStrip(SubSeq(s, 1, Len(s) - 1))
    ELSE s

Strip(s) == RStrip(LStrip(s))

\* str.split(sep): the pieces between the occurrences of sep
RECURSIVE Split(_, _)
Split(s, sep) ==
    IF ~Contains(s, sep)
    THEN <<s>>
    ELSE LET i == Min({k \in 1..Len(s) : s[k] = sep})
         IN  <<SubSeq(s, 1, i - 1)>> \o Split(From(s, i + 1), sep)

\* str.split(sep, 1)[1]: what follows the first sep
AfterFirst(s, sep) == From(s, Min({k \in 1..Len(s) : s[k] = sep}) + 1)

\* the greedy " *" of the four patterns: first position at or after i that is no blank
RECURSIVE SkipSpaces(_, _)
SkipSpaces(s, i) ==
    IF i <= Len(s) /\ s[i] = SP THEN SkipSpaces(s, i + 1) ELSE i

\* the greedy "\d+": first position at or after i that is no digit
RECURSIVE SkipDigits(_, _)
SkipDigits(s, i) ==
    IF i <= Len(s) /\ s[i] \in Digits THEN SkipDigits(s, i + 1) ELSE i

\* "$" without re.MULTILINE: the end of the text, or just before a final newline
AtEnd(s, q) == q = Len(s) + 1 \/ (q = Len(s) /\ s[q] = NL)

\* "\n\n" at position q
BlankLineAt(s, q) == q + 1 <= Len(s) /\ s[q] = NL /\ s[q + 1] = NL

\* "\n-" at position q
BulletAt(s, q) == q + 1 <= Len(s) /\ s[q] = NL /\ s[q + 1] = HYPHEN

NoMatch == [matched |-> FALSE, group |-> <<>>]

Match(g) == [matched |-> TRUE, group |-> g]

----------------------------------------------------------------------------
(* The four regular expressions of _extract_sentiment_data *)

IsLabel(tok, label) == Lower(tok) = Lower(label)

\* re.search(r"Overall Sentiment: *(positive|negative|neutral)", text, re.IGNORECASE)
SentimentAt(s, i) ==
    LET j == SkipSpaces(s, i + 1)
    IN  /\ IsLabel(s[i], "Overall Sentiment:")
        /\ j <= Len(s)
        /\ Lower(s[j]) \in SentimentWords

sentiment_match(s) ==
    LET hits == {i \in 1..Len(s) : SentimentAt(s, i)}
    IN  IF hits = {} THEN NoMatch
        ELSE Match(<<s[SkipSpaces(s, Min(hits) + 1)]>>)

\* re.search(r"Confidence: *(\d+%|\d+)", text, re.IGNORECASE)
ConfidenceAt(s, i) ==
    LET j == SkipSpaces(s, i + 1)
    IN  /\ IsLabel(s[i], "Confidence:")
        /\ j <= Len(s)
        /\ s[j] \in Digits

confidence_match(s) ==
    LET hits == {i \in 1..Len(s) : ConfidenceAt(s, i)}
    IN  IF hits = {} THEN NoMatch
        ELSE LET j == SkipSpaces(s, Min(hits) + 1)
                 k == SkipDigits(s, j)
             IN  IF k <= Len(s) /\ s[k] = PERCENT
                 THEN Match(SubSeq(s, j, k))
                 ELSE Match(SubSeq(s, j, k - 1))

\* re.search(r"Key Markers: *(.*?)(?=\n\n|\n-|$)", text, re.IGNORECASE | re.DOTALL)
MarkersEnd(s, q) == BlankLineAt(s, q) \/ BulletAt(s, q) \/ AtEnd(s, q)

markers_match(s) ==
    LET hits == {i \in 1..Len(s) : IsLabel(s[i], "Key Markers:")}
    IN  IF hits = {} THEN NoMatch
        ELSE LET p == SkipSpaces(s, Min(hits) + 1)
                 q == Min({k \in p..(Len(s) + 1) : MarkersEnd(s, k)})
             IN  Match(SubSeq(s, p, q - 1))

\* re.search(r"Analysis: *(.*?)(?=\n\n|$)", text, re.IGNORECASE | re.DOTALL)
AnalysisEnd(s, q) == BlankLineAt(s, q) \/ AtEnd(s, q)

analysis_match(s) ==
    LET hits == {i \in 1..Len(s) : IsLabel(s[i], "Analysis:")}
    IN  IF hits = {} THEN NoMatch
        ELSE LET p == SkipSpaces(s, Min(hits) + 1)
                 q == Min({k \in p..(Len(s) + 1) : AnalysisEnd(s, k)})
             IN  Match(SubSeq(s, p, q - 1))

----------------------------------------------------------------------------
(* _extract_sentiment_data *)

DefaultResult_neutral ==
    [ sentiment |-> "neutral",
      confidence |-> <<"0", PERCENT>>,
      key_markers |-> <<>>,
      analysis |-> <<"No analysis available">> ]

\* the default values of the result
DefaultResult ==
    [ sentiment |-> "unknown",
      confidence |-> <<"0", PERCENT>>,
      key_markers |-> <<>>,
      analysis |-> <<"No analysis available">> ]

NormalizeConfidence_asis(g) == g

\* result["confidence"] = group(1), with "%" appended unless it ends with one
NormalizeConfidence(g) ==
    IF g[Len(g)] = PERCENT THEN g ELSE g \o <<PERCENT>>

\* the loop over markers_text.split("\n") of the bullet branch
RECURSIVE BulletMarkers(_)
BulletMarkers(lines) ==
    IF lines = <<>> THEN <<>>
    ELSE LET line == Head(lines)
             marker == Strip(AfterFirst(line, HYPHEN))
         IN  IF Contains(line, HYPHEN) /\ marker # <<>>
             THEN <<marker>> \o BulletMarkers(Tail(lines))
             ELSE BulletMarkers(Tail(lines))

\* [m.strip() for m in markers_text.split(",") if m.strip()]
RECURSIVE CommaMarkers(_)
CommaMarkers(pieces) ==
    IF pieces = <<>> THEN <<>>
    ELSE IF Strip(Head(pieces)) # <<>>
         THEN <<Strip(Head(pieces))>> \o CommaMarkers(Tail(pieces))
         ELSE CommaMarkers(Tail(pieces))

\* the markers list built from group(1) of markers_match
MarkersOf(g) ==
    LET markers_text == Strip(g)
    IN  IF Contains(markers_text, HYPHEN)
        THEN BulletMarkers(Split(markers_text, NL))
        ELSE IF Contains(markers_text, COMMA)
             THEN CommaMarkers(Split(markers_text, COMMA))
             ELSE IF markers_text # <<>>
                  THEN <<markers_text>>
                  ELSE <<>>

extract_sentiment_data_coupled(s) ==
    LET sm == sentiment_match(s)
        cm == confidence_match(s)
        mm == markers_match(s)
        am == analysis_match(s)
        r0 == DefaultResult
        r1 == IF sm.matched
              THEN [r0 EXCEPT !.sentiment = Lower(sm.group[1])]
              ELSE r0
        r2 == IF sm.matched /\ cm.matched
              THEN [r1 EXCEPT !.confidence = NormalizeConfidence(cm.group)]
              ELSE r1
        r3 == IF mm.matched
              THEN [r2 EXCEPT !.key_markers = MarkersOf(mm.group)]
              ELSE r2
        r4 == IF am.matched
              THEN [r3 EXCEPT !.analysis = Strip(am.group)]
              ELSE r3
    IN  r4

extract_sentiment_data_nolower(s) ==
    LET sm == sentiment_match(s)
        cm == confidence_match(s)
        mm == markers_match(s)
        am == analysis_match(s)
        r0 == DefaultResult
        r1 == IF sm.matched
              THEN [r0 EXCEPT !.sentiment = sm.group[1]]
              ELSE r0
        r2 == IF cm.matched
              THEN [r1 EXCEPT !.confidence = NormalizeConfidence(cm.group)]
              ELSE r1
        r3 == IF mm.matched
              THEN [r2 EXCEPT !.key_markers = MarkersOf(mm.group)]
              ELSE r2
        r4 == IF am.matched
              THEN [r3 EXCEPT !.analysis = Strip(am.group)]
              ELSE r3
    IN  r4

extract_sentiment_data(s) ==
    LET sm == sentiment_match(s)
        cm == confidence_match(s)
        mm == markers_match(s)
        am == analysis_match(s)
        r0 == DefaultResult
        r1 == IF sm.matched
              THEN [r0 EXCEPT !.sentiment = Lower(sm.group[1])]
              ELSE r0
        r2 == IF cm.matched
              THEN [r1 EXCEPT !.confidence = NormalizeConfidence(cm.group)]
              ELSE r1
        r3 == IF mm.matched
              THEN [r2 EXCEPT !.key_markers = MarkersOf(mm.group)]
              ELSE r2
        r4 == IF am.matched
              THEN [r3 EXCEPT !.analysis = Strip(am.group)]
              ELSE r3
    IN  r4

----------------------------------------------------------------------------
(* SentimentTaskManager.process_task *)

A2A_APP_NAME == "sentiment_analyzer_a2a_app"
DEFAULT_USER == "default_a2a_user"
NO_RESPONSE == <<"(No response generated)">>

\* Optional values: None is the empty sequence, a value v is <<v>>
None == <<>>
Some(v) == <<v>>

\* the user_id values a context carries (None: the context has no user_id)
ContextUsers == {None, Some("alice"), Some("bob")}

\* the session identifiers clients make up themselves
ClientIds == {"s1"}

\* str(uuid.uuid4()): the n-th identifier generated
Uuid(n) == <<"uuid-1", "uuid-2", "uuid-3", "uuid-4", "uuid-5", "uuid-6">>[n]

\* the texts the model replies with
ReplyA ==
    <<"Overall Sentiment:", SP, "positive", NL,
      "Confidence:", SP, "9", "0", PERCENT, NL,
      "Key Markers:", SP, "happy", COMMA, SP, "excited", NL, NL,
      "Analysis:", SP, "upbeat">>
ReplyB == <<"Confidence:", SP, "8", "2">>

Content(role, parts) == Some([role |-> role, parts |-> parts])

\* the events of the runner's stream
EventKinds ==
    { [final |-> TRUE,  content |-> Content("model", <<ReplyA>>)],
      [final |-> TRUE,  content |-> Content("model", <<ReplyB>>)],
      [final |-> TRUE,  content |-> Content("model", << <<>> >>)],
      [final |-> FALSE, content |-> Content("model", <<ReplyB>>)],
      [final |-> TRUE,  content |-> Content("user", <<ReplyB>>)],
      [final |-> TRUE,  content |-> None] }

\* the exceptions the runner raises, all subclasses of Exception
Exceptions ==
    { [class |-> "ValueError", msg |-> "Session not found"],
      [class |-> "RuntimeError", msg |-> "model call failed"] }

\* context.get("user_id", "default_a2a_user")
UserIdOf(ctxUser) == IF ctxUser = None THEN DEFAULT_USER ELSE ctxUser[1]

\* "if not session_id": None and the empty string are both falsy
Falsy(sid) == sid = None \/ sid = Some("")

SessionKey_nouser(user, sid) == <<A2A_APP_NAME, DEFAULT_USER, sid>>

\* the key (app_name, user_id, session_id) of a session in the session service
SessionKey(user, sid) == <<A2A_APP_NAME, user, sid>>

get_session_missing(store, key) == None

\* session_service.get_session(...): the stored session, or None
get_session(store, key) == IF key \in store THEN Some(key) ELSE None

\* session_service.create_session(...): the store afterwards
create_session(store, key) == store \cup {key}

\* one more in a history counter
Count(f, k) == IF k \in DOMAIN f THEN f[k] ELSE 0
Bump(f, k) == [x \in DOMAIN f \cup {k} |-> IF x = k THEN Count(f, k) + 1 ELSE f[x]]

Idle == [pc |-> "idle"]

\* event.is_final_response() and event.content and event.content.role == "model"
\* and event.content.parts and event.content.parts[0].text
HasFinalText(e) ==
    /\ e.final
    /\ e.content # None
    /\ e.content[1].role = "model"
    /\ e.content[1].parts # <<>>
    /\ e.content[1].parts[1] # <<>>

OnEvent_anytext(loc, e) ==
    LET appended == [loc EXCEPT !.raw_events = Append(@, e)]
    IN  IF e.final /\ e.content # None /\ e.content[1].role = "model" /\ e.content[1].parts # <<>>
        THEN [appended EXCEPT
                 !.final_message = e.content[1].parts[1],
                 !.sentiment_data = extract_sentiment_data(e.content[1].parts[1])]
        ELSE appended

OnEvent_stale(loc, e) ==
    LET appended == [loc EXCEPT !.raw_events = Append(@, e)]
    IN  IF HasFinalText(e)
        THEN [appended EXCEPT
                 !.final_message = e.content[1].parts[1],
                 !.sentiment_data = IF loc.final_message = NO_RESPONSE
                                    THEN extract_sentiment_data(e.content[1].parts[1])
                                    ELSE @]
        ELSE appended

OnEvent_first(loc, e) ==
    LET appended == [loc EXCEPT !.raw_events = Append(@, e)]
    IN  IF HasFinalText(e) /\ loc.final_message = NO_RESPONSE
        THEN [appended EXCEPT
                 !.final_message = e.content[1].parts[1],
                 !.sentiment_data = extract_sentiment_data(e.content[1].parts[1])]
        ELSE appended

\* the body of "async for event in events_async", on the locals of a request
OnEvent(loc, e) ==
    LET appended == [loc EXCEPT !.raw_events = Append(@, e)]
    IN  IF HasFinalText(e)
        THEN [appended EXCEPT
                 !.final_message = e.content[1].parts[1],
                 !.sentiment_data = extract_sentiment_data(e.content[1].parts[1])]
        ELSE appended

\* raw_events[-3:]
LastThree(evs) == SubSeq(evs, IF Len(evs) > 3 THEN Len(evs) - 2 ELSE 1, Len(evs))

\* the dictionary returned after the stream ended
SuccessResponse(loc) ==
    [ message |-> loc.final_message,
      status |-> "success",
      data |-> [ sentiment_analysis |-> loc.sentiment_data,
                 raw_events |-> LastThree(loc.raw_events) ] ]

\* the dictionary returned by the except branch
ErrorResponse(e) ==
    [ message |-> <<"Error processing your request: ", e.msg>>,
      status |-> "error",
      data |-> [error_type |-> e.class] ]

HandlerCatches_narrow(e) == e.class = "ValueError"

\* "except Exception as e": the exceptions the handler catches
HandlerCatches(e) == e \in Exceptions

\* the session identifiers a response hands to its caller
SessionIdsIn(resp) ==
    (IF "session_id" \in DOMAIN resp THEN {resp.session_id} ELSE {})
    \cup (IF "session_id" \in DOMAIN resp.data THEN {resp.data.session_id} ELSE {})

\* process_task up to the first await: user_id, session_id, the session
\* lookup and creation, run_async and the initial locals
Call(r, ctxUser, sidArg) ==
    /\ req[r].pc = "idle"
    /\ calls < MaxCalls
    /\ LET user_id == UserIdOf(ctxUser)
           generated == Falsy(sidArg)
           session_id == IF generated THEN Uuid(uuids + 1) ELSE sidArg[1]
           key == SessionKey(user_id, session_id)
           session == get_session(sessions, key)
       IN  /\ uuids' = IF generated THEN uuids + 1 ELSE uuids
           /\ sessions' = IF session = None THEN create_session(sessions, key) ELSE sessions
           /\ creates' = IF session = None THEN Bump(creates, key) ELSE creates
           /\ refs' = Bump(refs, key)
           /\ req' = [req EXCEPT ![r] =
                  [ pc |-> "running",
                    ctx_user |-> ctxUser,
                    runs |-> 1,
                    user_id |-> user_id,
                    session_id |-> session_id,
                    generated |-> generated,
                    found |-> session # None,
                    final_message |-> NO_RESPONSE,
                    raw_events |-> <<>>,
                    sentiment_data |-> DefaultResult ]]
    /\ calls' = calls + 1
    /\ UNCHANGED known

\* one iteration of "async for event in events_async"
NextEvent(r, e) ==
    /\ req[r].pc = "running"
    /\ Len(req[r].raw_events) < MaxEvents
    /\ req' = [req EXCEPT ![r] = OnEvent(@, e)]
    /\ UNCHANGED <<sessions, creates, refs, uuids, calls, known>>

\* the stream is exhausted: process_task returns the success response
StreamEnds(r) ==
    /\ req[r].pc = "running"
    /\ req' = [req EXCEPT ![r] =
           [@ EXCEPT !.pc = "returned"] @@
           [outcome |-> "response", response |-> SuccessResponse(@), raised |-> None]]
    /\ UNCHANGED <<sessions, creates, refs, uuids, calls, known>>

\* run_async or the stream raises e: the except branch returns the error
\* response when it catches e, otherwise e leaves process_task
RunnerRaises(r, e) ==
    /\ req[r].pc = "running"
    /\ req' = [req EXCEPT ![r] =
           [@ EXCEPT !.pc = "returned"] @@
           (IF HandlerCatches(e)
            THEN [outcome |-> "response", response |-> ErrorResponse(e), raised |-> Some(e)]
            ELSE [outcome |-> "propagated", response |-> ErrorResponse(e), raised |-> Some(e)])]
    /\ UNCHANGED <<sessions, creates, refs, uuids, calls, known>>

\* the statements of process_task that can raise before the runner is started,
\* each with an exception it raises: context is not a mapping (line 59), the
\* user_id is unhashable (line 66), the session or the content is rejected by
\* its validation (lines 68 and 72)
PreTryFaults ==
    { [step |-> "context",
       exc |-> [class |-> "AttributeError", msg |-> "'NoneType' object has no attribute 'get'"]],
      [step |-> "get_session",
       exc |-> [class |-> "TypeError", msg |-> "unhashable type: 'list'"]],
      [step |-> "create_session",
       exc |-> [class |-> "ValidationError", msg |-> "1 validation error for Session"]],
      [step |-> "content",
       exc |-> [class |-> "ValidationError", msg |-> "1 validation error for Part"]] }

\* the statements inside "try:" (lines 74 to 113): the runner and its stream
InTry(step) == step = "runner"

\* process_task when the statement f.step raises f.exc: the statements before
\* it have run; outside the try block the exception leaves process_task
CallFails(r, ctxUser, sidArg, f) ==
    /\ req[r].pc = "idle"
    /\ calls < MaxCalls
    /\ f.step = "context" => ctxUser = None
    /\ LET user_id == UserIdOf(ctxUser)
           generated == Falsy(sidArg)
           session_id == IF generated THEN Uuid(uuids + 1) ELSE sidArg[1]
           key == SessionKey(user_id, session_id)
           session == get_session(sessions, key)
           created == f.step = "content" /\ session = None
       IN  /\ f.step = "create_session" => session = None
           /\ uuids' = IF generated /\ f.step # "context" THEN uuids + 1 ELSE uuids
           /\ sessions' = IF created THEN create_session(sessions, key) ELSE sessions
           /\ creates' = IF created THEN Bump(creates, key) ELSE creates
           /\ refs' = IF f.step = "content" THEN Bump(refs, key) ELSE refs
           /\ req' = [req EXCEPT ![r] =
                  [ pc |-> "returned",
                    ctx_user |-> ctxUser,
                    runs |-> 0,
                    step |-> f.step,
                    outcome |-> IF InTry(f.step) /\ HandlerCatches(f.exc)
                                THEN "response" ELSE "propagated",
                    response |-> ErrorResponse(f.exc),
                    raised |-> Some(f.exc) ]]
    /\ calls' = calls + 1
    /\ UNCHANGED known

\* the caller receives the outcome and learns the identifiers it carries
Deliver(r) ==
    /\ req[r].pc = "returned"
    /\ known' = IF req[r].outcome = "response"
                THEN known \cup SessionIdsIn(req[r].response)
                ELSE known
    /\ req' = [req EXCEPT ![r] = Idle]
    /\ UNCHANGED <<sessions, creates, refs, uuids, calls>>

----------------------------------------------------------------------------
(* The chat application: send_message and the "New Conversation" button *)

\* f"conv-{uuid.uuid4()}": the n-th conversation identifier generated
ConvId(n) == <<"conv-1", "conv-2", "conv-3", "conv-4">>[n]

\* the texts the user types
UserTexts == {<<"great day">>, <<"bad day">>}

\* dict.get(key, default)
Get(d, k, default) == IF k \in DOMAIN d THEN d[k] ELSE default

\* the empty dictionary {}
EmptyDict == [k \in {} |-> {}]

\* what response.json() finds in the body of a reply
Bodies ==
    { [kind |-> "object",
       value |-> [ message |-> ReplyB, status |-> "success",
                   data |-> [sentiment_analysis |-> extract_sentiment_data(ReplyB)] ]],
      [kind |-> "object",
       value |-> [ message |-> <<"Error processing your request: ", "model call failed">>,
                   status |-> "error",
                   data |-> [error_type |-> "RuntimeError"] ]],
      [kind |-> "object", value |-> [status |-> "success"]],
      [kind |-> "array", value |-> EmptyDict],
      [kind |-> "invalid", value |-> EmptyDict] }

\* what requests.post does: it raises, or it returns a response
Outcomes ==
    { [kind |-> "raise", exc |-> "ConnectionError", status |-> 0, body |-> [kind |-> "invalid", value |-> EmptyDict]],
      [kind |-> "raise", exc |-> "ReadTimeout", status |-> 0, body |-> [kind |-> "invalid", value |-> EmptyDict]] }
    \cup { [kind |-> "response", exc |-> "", status |-> 200, body |-> b] : b \in Bodies }
    \cup { [kind |-> "response", exc |-> "", status |-> 500, body |-> [kind |-> "invalid", value |-> EmptyDict]] }

\* whether response.json() raises the JSONDecodeError of requests (a
\* RequestException) or the one of the json module depends on the installed
\* version of requests
JsonErrors == {"requests.JSONDecodeError", "json.JSONDecodeError"}

\* the subclasses of requests.exceptions.RequestException
RequestExceptions == {"ConnectionError", "ReadTimeout", "HTTPError", "requests.JSONDecodeError"}

\* the except clause that handles exception class c, in the order of the clauses
Clause(c) ==
    IF c \in RequestExceptions THEN "request"
    ELSE IF c \in JsonErrors THEN "json"
    ELSE "other"

\* the assistant entry each except clause appends
ErrorEntry(c) ==
    CASE Clause(c) = "request" ->
             [role |-> "assistant", content |-> <<"Error: Could not connect to agent. ", c>>]
      [] Clause(c) = "json" ->
             [role |-> "assistant", content |-> <<"Error: Invalid response format from agent.">>]
      [] OTHER ->
             [role |-> "assistant", content |-> <<"Error: An unexpected error occurred. ", c>>]

\* the exception the try block raises on outcome o, "" when it raises none;
\* jsonErr is the class response.json() raises on an invalid body
RaisedBy(o, jsonErr) ==
    IF o.kind = "raise" THEN o.exc
    ELSE IF o.status >= 400 THEN "HTTPError"
    ELSE IF o.body.kind = "invalid" THEN jsonErr
    ELSE IF o.body.kind # "object" THEN "AttributeError"
    ELSE ""

\* the assistant entry appended when the try block raises nothing
AssistantEntry(o) ==
    [ role |-> "assistant",
      content |-> Get(o.body.value, "message", <<"(No analysis received)">>),
      sentiment_data |-> Get(Get(o.body.value, "data", EmptyDict), "sentiment_analysis", EmptyDict) ]

send_message_silent(msgs, sid, message, o, jsonErr) ==
    IF sid = ""
    THEN [messages |-> msgs, ret |-> FALSE, posts |-> 0]
    ELSE LET withUser == Append(msgs, [role |-> "user", content |-> message])
             exc == RaisedBy(o, jsonErr)
         IN  IF exc = ""
             THEN [messages |-> Append(withUser, AssistantEntry(o)), ret |-> TRUE, posts |-> 1]
             ELSE IF Clause(exc) = "json"
                  THEN [messages |-> withUser, ret |-> FALSE, posts |-> 1]
                  ELSE [messages |-> Append(withUser, ErrorEntry(exc)), ret |-> FALSE, posts |-> 1]

send_message_late(msgs, sid, message, o, jsonErr) ==
    IF sid = ""
    THEN [messages |-> msgs, ret |-> FALSE, posts |-> 0]
    ELSE LET exc == RaisedBy(o, jsonErr)
         IN  IF exc = ""
             THEN [messages |-> Append(Append(msgs, [role |-> "user", content |-> message]),
                                       AssistantEntry(o)),
                   ret |-> TRUE, posts |-> 1]
             ELSE [messages |-> Append(msgs, ErrorEntry(exc)), ret |-> FALSE, posts |-> 1]

\* send_message(message): the messages afterwards, the value returned and the
\* number of requests.post calls made
send_message(msgs, sid, message, o, jsonErr) ==
    IF sid = ""
    THEN [messages |-> msgs, ret |-> FALSE, posts |-> 0]
    ELSE LET withUser == Append(msgs, [role |-> "user", content |-> message])
             exc == RaisedBy(o, jsonErr)
         IN  IF exc = ""
             THEN [messages |-> Append(withUser, AssistantEntry(o)), ret |-> TRUE, posts |-> 1]
             ELSE [messages |-> Append(withUser, ErrorEntry(exc)), ret |-> FALSE, posts |-> 1]

\* the user submits a text in the chat input
SendMessage(message, o, jsonErr) ==
    /\ sends < MaxSends
    /\ LET out == send_message(messages, chat_session_id, message, o, jsonErr)
       IN  /\ messages' = out.messages
           /\ last' = Some([message |-> message, outcome |-> o, ret |-> out.ret, posts |-> out.posts])
    /\ sends' = sends + 1
    /\ UNCHANGED <<chat_session_id, chat_user_id, convs>>

\* the "New Conversation" button
NewConversation ==
    /\ convs < MaxConversations
    /\ chat_session_id' = ConvId(convs + 1)
    /\ convs' = convs + 1
    /\ messages' = <<>>
    /\ last' = None
    /\ UNCHANGED <<chat_user_id, sends>>

----------------------------------------------------------------------------
(* The unified dashboard: the send functions and the buttons that call them *)

\* f"session-{int(time.time())}": the identifier made in the t-th second
SessionAt(t) == <<"session-1000", "session-1001", "session-1002", "session-1003">>[t]

\* the second in which identifier sid was made
SecondOf(sid) == CHOOSE t \in 1..4 : SessionAt(t) = sid

\* the events in the JSON array the coordinator's /run endpoint returns
ModelText(t) == [content |-> [role |-> "model", parts |-> <<[text |-> t]>>]]
UserText(t) == [content |-> [role |-> "user", parts |-> <<[text |-> t]>>]]
ModelCall == [content |-> [role |-> "model", parts |-> <<[functionCall |-> "transfer_to_agent"]>>]]
ModelNoParts == [content |-> [role |-> "model", parts |-> <<>>]]
NoContent == [author |-> "coordinator"]

\* event.get("content", {}).get("role") == "model"
IsModel(e) ==
    /\ "content" \in DOMAIN e
    /\ "role" \in DOMAIN e.content
    /\ e.content.role = "model"

\* "for event in events": the text of the last model event; parts[0] of an
\* empty list raises IndexError, a first part without text gives None
RECURSIVE LastModelText(_, _)
LastModelText(events, acc) ==
    IF events = <<>>
    THEN [raised |-> FALSE, text |-> acc]
    ELSE LET e == Head(events)
             parts == Get(e.content, "parts", <<EmptyDict>>)
         IN  IF ~IsModel(e) THEN LastModelText(Tail(events), acc)
             ELSE IF parts = <<>> THEN [raised |-> TRUE, text |-> None]
             ELSE LastModelText(Tail(events),
                                IF "text" \in DOMAIN parts[1] THEN Some(parts[1].text) ELSE None)

\* the lines the Reddit agent's reply is made of
PostLineKinds ==
    { <<>>,
      <<"Top posts from", SP, "r/python:">>,
      <<"Here are", SP, "the posts">>,
      <<HYPHEN, SP, "post one">>,
      <<SP, HYPHEN, SP, "post two">>,
      <<"post three">> }

\* the replies of at most n lines
RECURSIVE PostTexts(_)
PostTexts(n) ==
    IF n = 0 THEN {}
    ELSE PostLineKinds
         \cup {t \o <<NL>> \o l : t \in PostTexts(n - 1), l \in PostLineKinds}

\* str.startswith
StartsWith(line, prefix) ==
    /\ Len(line) >= Len(prefix)
    /\ SubSeq(line, 1, Len(prefix)) = prefix

RECURSIVE PostsOf_bullets(_)
PostsOf_bullets(lines) ==
    IF lines = <<>> THEN <<>>
    ELSE LET line == Strip(Head(lines))
         IN  IF StartsWith(line, <<HYPHEN, SP>>)
             THEN <<From(line, 3)>> \o PostsOf_bullets(Tail(lines))
             ELSE PostsOf_bullets(Tail(lines))

\* the loop "for line in lines" of send_to_reddit_scout
RECURSIVE PostsOf(_)
PostsOf(lines) ==
    IF lines = <<>> THEN <<>>
    ELSE LET line == Strip(Head(lines))
         IN  IF StartsWith(line, <<HYPHEN, SP>>)
             THEN <<From(line, 3)>> \o PostsOf(Tail(lines))
             ELSE IF Len(line) > 0
                     /\ ~StartsWith(line, <<"Top posts from">>)
                     /\ ~StartsWith(line, <<"Here are">>)
                  THEN <<line>> \o PostsOf(Tail(lines))
                  ELSE PostsOf(Tail(lines))

\* what requests.post does for a request to the coordinator: it raises, or
\* it returns a response whose JSON array has a model event with a text of
\* texts, or with the text sample among other events
CoordinatorOutcomes(texts, sample) ==
    { [kind |-> "raise", exc |-> "ConnectionError", status |-> 0, body |-> [kind |-> "invalid", value |-> <<>>]],
      [kind |-> "response", exc |-> "", status |-> 500, body |-> [kind |-> "invalid", value |-> <<>>]],
      [kind |-> "response", exc |-> "", status |-> 200, body |-> [kind |-> "invalid", value |-> <<>>]],
      [kind |-> "response", exc |-> "", status |-> 200, body |-> [kind |-> "array", value |-> <<>>]],
      [kind |-> "response", exc |-> "", status |-> 200, body |-> [kind |-> "array", value |-> <<NoContent, ModelNoParts>>]] }
    \cup { [kind |-> "response", exc |-> "", status |-> 200, body |-> [kind |-> "array", value |-> evs]] :
             evs \in {<<ModelText(t)>> : t \in texts}
                     \cup { <<UserText(<<"request">>), ModelCall, ModelText(sample)>>,
                            <<ModelText(sample), ModelCall>>,
                            <<ModelText(sample), ModelText(<<>>)>> } }

\* whether the try block of a send function that talks to the coordinator
\* ends in "except Exception"; the text of the last model event otherwise
CoordinatorReply(o) ==
    IF o.kind = "raise" THEN [failed |-> TRUE, text |-> None]
    ELSE IF o.status # 200 THEN [failed |-> TRUE, text |-> None]
    ELSE IF o.body.kind = "invalid" THEN [failed |-> TRUE, text |-> None]
    ELSE LET found == LastModelText(o.body.value, None)
         IN  [failed |-> found.raised, text |-> found.text]

send_to_reddit_scout_clearing(posts, o) ==
    LET reply == CoordinatorReply(o)
    IN  IF reply.failed
        THEN [reddit_posts |-> posts, ret |-> None, requests |-> 1, notice |-> "error"]
        ELSE IF reply.text # None /\ reply.text[1] # <<>>
        THEN LET parsed == PostsOf(Split(reply.text[1], NL))
             IN  IF parsed # <<>>
                 THEN [reddit_posts |-> parsed, ret |-> Some(parsed), requests |-> 1, notice |-> "none"]
                 ELSE [reddit_posts |-> parsed, ret |-> None, requests |-> 1, notice |-> "warning"]
        ELSE [reddit_posts |-> posts, ret |-> None, requests |-> 1, notice |-> "warning"]

\* send_to_reddit_scout(subreddit): reddit_posts afterwards, the value
\* returned, the number of requests.post calls and the notice shown
send_to_reddit_scout(posts, o) ==
    LET reply == CoordinatorReply(o)
    IN  IF reply.failed
        THEN [reddit_posts |-> posts, ret |-> None, requests |-> 1, notice |-> "error"]
        ELSE IF reply.text # None /\ reply.text[1] # <<>>
        THEN LET parsed == PostsOf(Split(reply.text[1], NL))
             IN  IF parsed # <<>>
                 THEN [reddit_posts |-> parsed, ret |-> Some(parsed), requests |-> 1, notice |-> "none"]
                 ELSE [reddit_posts |-> posts, ret |-> None, requests |-> 1, notice |-> "warning"]
        ELSE [reddit_posts |-> posts, ret |-> None, requests |-> 1, notice |-> "warning"]

\* the summaries the coordinator replies with
SummaryTexts == {<<"a summary">>}

\* a reply of the Reddit agent: a heading, a bulleted post and a plain line
SamplePosts ==
    <<"Top posts from", SP, "r/python:", NL, HYPHEN, SP, "post one", NL, "post three">>

\* send_to_summarizer(text): current_summary afterwards and the value returned
send_to_summarizer(summary, o) ==
    LET reply == CoordinatorReply(o)
    IN  IF reply.failed
        THEN [current_summary |-> summary, ret |-> None, requests |-> 1, notice |-> "error"]
        ELSE [current_summary |-> reply.text, ret |-> reply.text, requests |-> 1, notice |-> "none"]

\* whether a send function that talks to an A2A agent shows an error and
\* returns None: requests.post raises, the status is not 200, the body is
\* not JSON, or it is JSON but no object (".get" raises AttributeError)
A2AFailed(o) ==
    \/ o.kind = "raise"
    \/ o.status # 200
    \/ o.body.kind # "object"

send_to_sentiment_analyzer_retrying(analysis, o) ==
    IF A2AFailed(o)
    THEN [current_analysis |-> analysis, ret |-> None, requests |-> 2, notice |-> "error"]
    ELSE LET stored == [ message |-> Get(o.body.value, "message", <<>>),
                         data |-> Get(Get(o.body.value, "data", EmptyDict),
                                      "sentiment_analysis", EmptyDict) ]
         IN  [current_analysis |-> stored, ret |-> Some(stored.data), requests |-> 1, notice |-> "none"]

\* send_to_sentiment_analyzer(text): current_analysis afterwards and the
\* value returned; every exception of the try block, the HTTP status check
\* excepted, ends in "except Exception"
send_to_sentiment_analyzer(analysis, o) ==
    IF A2AFailed(o)
    THEN [current_analysis |-> analysis, ret |-> None, requests |-> 1, notice |-> "error"]
    ELSE LET stored == [ message |-> Get(o.body.value, "message", <<>>),
                         data |-> Get(Get(o.body.value, "data", EmptyDict),
                                      "sentiment_analysis", EmptyDict) ]
         IN  [current_analysis |-> stored, ret |-> Some(stored.data), requests |-> 1, notice |-> "none"]

\* what response.json() finds in the body of the speaker's reply
SpeakerBodies ==
    { [kind |-> "object",
       value |-> [message |-> <<"spoken">>, data |-> [audio_url |-> "file:///tmp/speech.mp3"]]],
      [kind |-> "object",
       value |-> [message |-> <<"spoken">>, data |-> [audio_url |-> "/tmp/speech.mp3"]]],
      [kind |-> "object", value |-> [message |-> <<"no audio">>, data |-> EmptyDict]],
      [kind |-> "invalid", value |-> EmptyDict] }

SpeakerOutcomes ==
    { [kind |-> "raise", exc |-> "ReadTimeout", status |-> 0, body |-> [kind |-> "invalid", value |-> EmptyDict]],
      [kind |-> "response", exc |-> "", status |-> 500, body |-> [kind |-> "invalid", value |-> EmptyDict]] }
    \cup { [kind |-> "response", exc |-> "", status |-> 200, body |-> b] : b \in SpeakerBodies }

\* audio_url.replace("file://", "") when the URL starts with "file://"
AudioPath(url) == IF url = "file:///tmp/speech.mp3" THEN "/tmp/speech.mp3" ELSE url

\* send_to_speaker(text): audio_file afterwards and the value returned;
\* exists is the answer of os.path.exists(audio_path)
send_to_speaker(audio, o, exists) ==
    IF A2AFailed(o)
    THEN [audio_file |-> audio, ret |-> None, requests |-> 1, notice |-> "error"]
    ELSE LET data == Get(o.body.value, "data", EmptyDict)
         IN  IF "audio_url" \in DOMAIN data /\ exists
             THEN [ audio_file |-> Some(AudioPath(data.audio_url)),
                    ret |-> Some(AudioPath(data.audio_url)), requests |-> 1, notice |-> "none" ]
             ELSE [audio_file |-> audio, ret |-> None, requests |-> 1, notice |-> "none"]

\* what requests.post does for the request that creates a session
SessionOutcomes ==
    { [kind |-> "raise", exc |-> "ConnectionError", status |-> 0],
      [kind |-> "response", exc |-> "", status |-> 200],
      [kind |-> "response", exc |-> "", status |-> 201],
      [kind |-> "response", exc |-> "", status |-> 400] }

create_adk_session_eager(sid, msgs, t, o) ==
    IF o.kind = "response" /\ o.status = 200
    THEN [session_id |-> SessionAt(t), messages |-> <<>>, ret |-> TRUE, requests |-> 1, notice |-> "none"]
    ELSE [session_id |-> SessionAt(t), messages |-> msgs, ret |-> FALSE, requests |-> 1, notice |-> "error"]

\* create_adk_session() in second t: session_id and messages afterwards and
\* the value returned
create_adk_session(sid, msgs, t, o) ==
    IF o.kind = "response" /\ o.status = 200
    THEN [session_id |-> SessionAt(t), messages |-> <<>>, ret |-> TRUE, requests |-> 1, notice |-> "none"]
    ELSE [session_id |-> sid, messages |-> msgs, ret |-> FALSE, requests |-> 1, notice |-> "error"]

\* the record of one call of a send function by a button handler
Invocation(fn, o, out) ==
    [fn |-> fn, outcome |-> o, ret |-> out.ret, requests |-> out.requests, notice |-> out.notice]

\* the button "Create New ADK Session", clicked in second t
CreateNewSession(t, o) ==
    /\ clicks < MaxClicks
    /\ t >= SecondOf(dash_session_id)
    /\ LET out == create_adk_session(dash_session_id, dash_messages, t, o)
       IN  /\ dash_session_id' = out.session_id
           /\ dash_messages' = out.messages
           /\ invoked' = <<Invocation("create_adk_session", o, out)>>
    /\ clicks' = clicks + 1
    /\ UNCHANGED <<reddit_posts, current_summary, current_analysis, audio_file>>

\* the button "Fetch Posts"
FetchPosts(o) ==
    /\ clicks < MaxClicks
    /\ LET out == send_to_reddit_scout(reddit_posts, o)
       IN  /\ reddit_posts' = out.reddit_posts
           /\ invoked' = <<Invocation("send_to_reddit_scout", o, out)>>
    /\ clicks' = clicks + 1
    /\ UNCHANGED <<dash_session_id, dash_messages, current_summary, current_analysis, audio_file>>

\* the button "Generate Summary", with a text entered
GenerateSummary(o) ==
    /\ clicks < MaxClicks
    /\ LET out == send_to_summarizer(current_summary, o)
       IN  /\ current_summary' = out.current_summary
           /\ invoked' = <<Invocation("send_to_summarizer", o, out)>>
    /\ clicks' = clicks + 1
    /\ UNCHANGED <<dash_session_id, dash_messages, reddit_posts, current_analysis, audio_file>>

\* the button "Analyze Sentiment", with a text entered
AnalyzeSentiment(o) ==
    /\ clicks < MaxClicks
    /\ LET out == send_to_sentiment_analyzer(current_analysis, o)
       IN  /\ current_analysis' = out.current_analysis
           /\ invoked' = <<Invocation("send_to_sentiment_analyzer", o, out)>>
    /\ clicks' = clicks + 1
    /\ UNCHANGED <<dash_session_id, dash_messages, reddit_posts, current_summary, audio_file>>

\* the button "Convert to Speech", with a text entered
ConvertToSpeech(o, exists) ==
    /\ clicks < MaxClicks
    /\ LET out == send_to_speaker(audio_file, o, exists)
       IN  /\ audio_file' = out.audio_file
           /\ invoked' = <<Invocation("send_to_speaker", o, out)>>
    /\ clicks' = clicks + 1
    /\ UNCHANGED <<dash_session_id, dash_messages, reddit_posts, current_summary, current_analysis>>

\* the button "Analyze All Posts Together", shown when there are posts
AnalyzeAllPosts(o1, o2) ==
    /\ clicks < MaxClicks
    /\ reddit_posts # <<>>
    /\ LET out1 == send_to_summarizer(current_summary, o1)
           out2 == send_to_sentiment_analyzer(current_analysis, o2)
       IN  /\ current_summary' = out1.current_summary
           /\ current_analysis' = out2.current_analysis
           /\ invoked' = << Invocation("send_to_summarizer", o1, out1),
                            Invocation("send_to_sentiment_analyzer", o2, out2) >>
    /\ clicks' = clicks + 1
    /\ UNCHANGED <<dash_session_id, dash_messages, reddit_posts, audio_file>>

----------------------------------------------------------------------------
(* What the two applications display *)

\* str.capitalize() on the sentiment values
Capitalize(tok) ==
    CASE tok = "positive" -> "Positive"
      [] tok = "negative" -> "Negative"
      [] tok = "neutral" -> "Neutral"
      [] tok = "unknown" -> "Unknown"
      [] OTHER -> tok

\* display_sentiment_emoji(sentiment), and the same chain in the chat app
Emoji(sentiment) ==
    CASE sentiment = "positive" -> "(smiling face)"
      [] sentiment = "negative" -> "(disappointed face)"
      [] sentiment = "neutral" -> "(neutral face)"
      [] OTHER -> "(question mark)"

\* the elements of a sequence
Elements(seq) == {seq[i] : i \in 1..Len(seq)}

\* the chat app's rendering of one entry of messages: whether the sentiment
\* result is drawn, the texts written on the page, and the texts written
\* inside expanders, which are closed until the user opens them
RenderMessage(msg) ==
    IF msg.role = "user" \/ "sentiment_data" \notin DOMAIN msg
    THEN [card |-> FALSE, visible |-> {msg.content}, expandable |-> {}]
    ELSE LET d == msg.sentiment_data
             sentiment == Get(d, "sentiment", "unknown")
             confidence == Get(d, "confidence", <<"0", PERCENT>>)
             markers == Get(d, "key_markers", <<>>)
             analysis == Get(d, "analysis", <<"No analysis available">>)
         IN  [ card |-> TRUE,
               visible |-> { <<Emoji(sentiment)>>,
                             <<Capitalize(sentiment)>>,
                             <<"Confidence: ">> \o confidence,
                             <<"Analysis: ">> \o analysis },
               expandable |-> Elements(markers) \cup {msg.content} ]

\* the dashboard's rendering of current_analysis in the tab "Sentiment Analysis"
AnalysisTab(analysis_state) ==
    IF analysis_state = EmptyDict \/ "data" \notin DOMAIN analysis_state
    THEN [card |-> FALSE, visible |-> {}, expandable |-> {}]
    ELSE LET d == analysis_state.data
             sentiment == Get(d, "sentiment", "unknown")
             confidence == Get(d, "confidence", <<"0", PERCENT>>)
             markers == Get(d, "key_markers", <<>>)
             analysis == Get(d, "analysis", <<"No analysis available">>)
         IN  [ card |-> TRUE,
               visible |-> { <<"Sentiment Analysis Results">>,
                             <<Emoji(sentiment)>>,
                             <<Capitalize(sentiment)>>,
                             <<"Confidence: ">> \o confidence,
                             analysis }
                           \cup (IF markers # <<>> THEN Elements(markers)
                                 ELSE {<<"No key markers identified">>}),
               expandable |-> {} ]

----------------------------------------------------------------------------
(* Initial states *)

ExtractIdle ==
    /\ text = <<>>
    /\ nlines = 0
    /\ extracted = FALSE
    /\ result = DefaultResult

TaskIdle ==
    /\ sessions = {}
    /\ creates = <<>>
    /\ refs = <<>>
    /\ uuids = 0
    /\ calls = 0
    /\ known = ClientIds

\* the session state after the first run of the script
ChatIdle ==
    /\ chat_user_id = "user-1"
    /\ chat_session_id = ConvId(1)
    /\ convs = 1
    /\ messages = <<>>
    /\ sends = 0
    /\ last = None

\* the session state after the first run of the dashboard's script
DashIdle ==
    /\ dash_session_id = SessionAt(1)
    /\ dash_messages = <<>>
    /\ reddit_posts = <<>>
    /\ current_summary = Some(<<>>)
    /\ current_analysis = EmptyDict
    /\ audio_file = None
    /\ clicks = 0
    /\ invoked = <<>>

AllIdle ==
    /\ ExtractIdle
    /\ TaskIdle
    /\ req = [r \in {1} |-> Idle]
    /\ ChatIdle
    /\ DashIdle

----------------------------------------------------------------------------
(* Specification of the task manager: one client, a single request in
   flight at a time *)

Init == AllIdle

Next ==
    \/ \E r \in DOMAIN req, u \in ContextUsers, sid \in {None, Some("")} \cup {Some(k) : k \in known} :
           Call(r, u, sid) /\ UNCHANGED <<extractVars, chatVars, dashVars>>
    \/ \E r \in DOMAIN req, e \in EventKinds : NextEvent(r, e) /\ UNCHANGED <<extractVars, chatVars, dashVars>>
    \/ \E r \in DOMAIN req : StreamEnds(r) /\ UNCHANGED <<extractVars, chatVars, dashVars>>
    \/ \E r \in DOMAIN req, e \in Exceptions : RunnerRaises(r, e) /\ UNCHANGED <<extractVars, chatVars, dashVars>>
    \/ \E r \in DOMAIN req : Deliver(r) /\ UNCHANGED <<extractVars, chatVars, dashVars>>

Spec == Init /\ [][Next]_vars

----------------------------------------------------------------------------
(* Specification of process_task with failures of the statements before the *)
(* try block                                                                *)

FaultsInit == AllIdle

FaultsNext ==
    \/ Next
    \/ \E r \in DOMAIN req, u \in ContextUsers, sid \in {None} \cup {Some(k) : k \in known},
          f \in PreTryFaults :
           CallFails(r, u, sid, f) /\ UNCHANGED <<extractVars, chatVars, dashVars>>

SpecFaults == FaultsInit /\ [][FaultsNext]_vars

----------------------------------------------------------------------------
(* Specification of process_task with several requests in flight: the calls *)
(* are coroutines of one event loop, so a call runs without interruption    *)
(* from one await to the next, and the calls interleave at their awaits.    *)

ConcurrentInit ==
    /\ ExtractIdle
    /\ TaskIdle
    /\ req = [r \in 1..MaxConcurrent |-> Idle]
    /\ ChatIdle
    /\ DashIdle

\* the events of the streams of the concurrent requests
ConcurrentEvents == {[final |-> TRUE, content |-> Content("model", <<ReplyA>>)]}

\* the users of the concurrent requests
ConcurrentUsers == {Some("alice")}

\* the exception a runner of the concurrent requests raises
ConcurrentExceptions == {[class |-> "RuntimeError", msg |-> "model call failed"]}

ConcurrentNext ==
    \/ \E r \in DOMAIN req, u \in ConcurrentUsers, sid \in {None} \cup {Some(k) : k \in known} :
           Call(r, u, sid) /\ UNCHANGED <<extractVars, chatVars, dashVars>>
    \/ \E r \in DOMAIN req, e \in ConcurrentEvents :
           NextEvent(r, e) /\ UNCHANGED <<extractVars, chatVars, dashVars>>
    \/ \E r \in DOMAIN req : StreamEnds(r) /\ UNCHANGED <<extractVars, chatVars, dashVars>>
    \/ \E r \in DOMAIN req, e \in ConcurrentExceptions :
           RunnerRaises(r, e) /\ UNCHANGED <<extractVars, chatVars, dashVars>>
    \/ \E r \in DOMAIN req : Deliver(r) /\ UNCHANGED <<extractVars, chatVars, dashVars>>

SpecConcurrent == ConcurrentInit /\ [][ConcurrentNext]_vars

----------------------------------------------------------------------------
(* Specification of the extraction: a text is built line by line, then     *)
(* _extract_sentiment_data is applied to it.                               *)

ExtractInit == AllIdle

\* append one more line to the reply text
AddLine(l) ==
    /\ ~extracted
    /\ nlines < MaxLines
    /\ text' = IF nlines = 0 THEN l ELSE text \o <<NL>> \o l
    /\ nlines' = nlines + 1
    /\ UNCHANGED <<extracted, result>>
    /\ UNCHANGED <<taskVars, chatVars, dashVars>>

\* result = self._extract_sentiment_data(text)
Extract ==
    /\ ~extracted
    /\ nlines > 0
    /\ result' = extract_sentiment_data(text)
    /\ extracted' = TRUE
    /\ UNCHANGED <<text, nlines>>
    /\ UNCHANGED <<taskVars, chatVars, dashVars>>

ExtractNext ==
    \/ \E l \in LineKinds : AddLine(l)
    \/ Extract

SpecExtract == ExtractInit /\ [][ExtractNext]_vars

----------------------------------------------------------------------------
(* Specification of the chat application *)

ChatInit == AllIdle

ChatNext ==
    \/ \E m \in UserTexts, o \in Outcomes, j \in JsonErrors :
           SendMessage(m, o, j) /\ UNCHANGED <<extractVars, taskVars, dashVars>>
    \/ NewConversation /\ UNCHANGED <<extractVars, taskVars, dashVars>>

SpecChat == ChatInit /\ [][ChatNext]_vars

----------------------------------------------------------------------------
(* Specification of the unified dashboard *)

DashInit == AllIdle

DashNext ==
    \/ \E t \in 1..MaxTime, o \in SessionOutcomes :
           CreateNewSession(t, o) /\ UNCHANGED <<extractVars, taskVars, chatVars>>
    \/ \E o \in CoordinatorOutcomes(PostTexts(MaxPostLines), SamplePosts) :
           FetchPosts(o) /\ UNCHANGED <<extractVars, taskVars, chatVars>>
    \/ \E o \in CoordinatorOutcomes(SummaryTexts, <<"a summary">>) :
           GenerateSummary(o) /\ UNCHANGED <<extractVars, taskVars, chatVars>>
    \/ \E o \in Outcomes :
           AnalyzeSentiment(o) /\ UNCHANGED <<extractVars, taskVars, chatVars>>
    \/ \E o \in SpeakerOutcomes, exists \in BOOLEAN :
           ConvertToSpeech(o, exists) /\ UNCHANGED <<extractVars, taskVars, chatVars>>
    \/ \E o1 \in CoordinatorOutcomes(SummaryTexts, <<"a summary">>), o2 \in Outcomes :
           AnalyzeAllPosts(o1, o2) /\ UNCHANGED <<extractVars, taskVars, chatVars>>

SpecDash == DashInit /\ [][DashNext]_vars

----------------------------------------------------------------------------
(* Specification of the three programs together.  The task manager, the    *)
(* chat application and the dashboard are separate processes that share no *)
(* state; a behaviour of this specification follows one of them, the other *)
(* two staying as they start.                                              *)

AllInit == AllIdle

AllNext ==
    \/ ChatIdle /\ DashIdle /\ Next
    \/ TaskIdle /\ DashIdle /\ ChatNext
    \/ TaskIdle /\ ChatIdle /\ DashNext

SpecAll == AllInit /\ [][AllNext]_vars

----------------------------------------------------------------------------
(* Properties of _extract_sentiment_data (specification SpecExtract) *)

LABEL_SENTIMENT == "Overall Sentiment:"
LABEL_CONFIDENCE == "Confidence:"
LABEL_MARKERS == "Key Markers:"
LABEL_ANALYSIS == "Analysis:"

\* "Overall Sentiment: positive\nConfidence: 90%\nKey Markers: happy, excited\nAnalysis: upbeat"
LiteralText ==
    <<LABEL_SENTIMENT, SP, "positive", NL,
      LABEL_CONFIDENCE, SP, "9", "0", PERCENT, NL,
      LABEL_MARKERS, SP, "happy", COMMA, SP, "excited", NL,
      LABEL_ANALYSIS, SP, "upbeat">>

\* C1: on the literal four-line text, extraction returns sentiment "positive",
\* confidence "90%", key_markers ["happy", "excited"] and analysis "upbeat".
C1_LiteralExtraction ==
    (extracted /\ text = LiteralText) =>
        result = [ sentiment |-> "positive",
                   confidence |-> <<"9", "0", PERCENT>>,
                   key_markers |-> << <<"happy">>, <<"excited">> >>,
                   analysis |-> <<"upbeat">> ]

\* the lines of a text
LinesOf(s) == Split(s, NL)

\* a line of the form "- marker"
IsBulletLine(l) == l # <<>> /\ l[1] = HYPHEN

\* the line that holds the first "Key Markers:" label, 0 when there is none
MarkersLine(s) ==
    LET ls == LinesOf(s)
        at == {k \in 1..Len(ls) : \E i \in 1..Len(ls[k]) : IsLabel(ls[k][i], LABEL_MARKERS)}
    IN  IF at = {} THEN 0 ELSE Min(at)

\* number of consecutive bullet lines that follow line k
RECURSIVE BulletRun(_, _)
BulletRun(ls, k) ==
    IF k + 1 <= Len(ls) /\ IsBulletLine(ls[k + 1]) THEN 1 + BulletRun(ls, k + 1) ELSE 0

\* the "Key Markers:" label stands alone on its line and bullet lines follow it
HasBulletSection(s) ==
    LET k == MarkersLine(s)
    IN  /\ k > 0
        /\ Strip(LinesOf(s)[k]) = <<LABEL_MARKERS>>
        /\ BulletRun(LinesOf(s), k) > 0

\* the non-empty bullets of lines a..b, in order
RECURSIVE BulletsOf(_, _, _)
BulletsOf(ls, a, b) ==
    IF a > b THEN <<>>
    ELSE LET m == Strip(Tail(ls[a]))
         IN  (IF m # <<>> THEN <<m>> ELSE <<>>) \o BulletsOf(ls, a + 1, b)

ExpectedBullets(s) ==
    LET k == MarkersLine(s)
    IN  BulletsOf(LinesOf(s), k + 1, k + BulletRun(LinesOf(s), k))

\* C2: when the "Key Markers:" section lists its markers as bullet lines,
\* key_markers has exactly one entry per non-empty bullet, in text order.
C2_BulletMarkers ==
    (extracted /\ HasBulletSection(text)) =>
        result.key_markers = ExpectedBullets(text)

\* the text has no "Overall Sentiment:" label at all
NoSentimentLine(s) == \A i \in 1..Len(s) : ~IsLabel(s[i], LABEL_SENTIMENT)

\* C3 as stated: a text with no "Overall Sentiment:" line gives sentiment
\* "unknown" and confidence "0%", whatever else it contains.
C3_NoSentimentLineOriginal ==
    (extracted /\ NoSentimentLine(text)) =>
        /\ result.sentiment = "unknown"
        /\ result.confidence = <<"0", PERCENT>>

\* the positions where "Confidence:", blanks and a digit string stand
ConfidencePlaces(s) == {i \in 1..Len(s) : ConfidenceAt(s, i)}

\* the digit string N of the "Confidence: N" at position i
NumberAt(s, i) ==
    LET j == SkipSpaces(s, i + 1)
    IN  SubSeq(s, j, SkipDigits(s, j) - 1)

\* C3 (amended): a text with no "Overall Sentiment:" line gives sentiment
\* "unknown"; its confidence is "0%" when it has no "Confidence: N" either,
\* and otherwise the N of its first "Confidence: N", with a percent sign.
C3_NoSentimentLine ==
    (extracted /\ NoSentimentLine(text)) =>
        /\ result.sentiment = "unknown"
        /\ ConfidencePlaces(text) = {} => result.confidence = <<"0", PERCENT>>
        /\ ConfidencePlaces(text) # {} =>
               result.confidence = NumberAt(text, Min(ConfidencePlaces(text))) \o <<PERCENT>>

C3_Witness ==
    /\ extracted
    /\ NoSentimentLine(text)
    /\ ConfidencePlaces(text) # {}
    /\ result.sentiment = "unknown"
    /\ result.confidence = <<"8", "2", PERCENT>>

\* C6 as stated: every "Confidence: N" the text contains decides the result:
\* confidence is N followed by one percent sign.
C6_ConfidenceOriginal ==
    extracted =>
        \A i \in ConfidencePlaces(text) :
            result.confidence = NumberAt(text, i) \o <<PERCENT>>

\* C6 (amended): the first "Confidence: N" of the text decides the result:
\* confidence is N followed by exactly one percent sign, whether or not a
\* percent sign follows N in the text.
C6_Confidence ==
    (extracted /\ ConfidencePlaces(text) # {}) =>
        result.confidence = NumberAt(text, Min(ConfidencePlaces(text))) \o <<PERCENT>>

\* a percent sign follows the number of the "Confidence: N" at position i
PercentFollows(s, i) ==
    LET k == SkipDigits(s, SkipSpaces(s, i + 1))
    IN  k <= Len(s) /\ s[k] = PERCENT

C6_Witness ==
    /\ extracted
    /\ ConfidencePlaces(text) # {}
    /\ ~PercentFollows(text, Min(ConfidencePlaces(text)))
    /\ result.confidence = <<"8", "2", PERCENT>>

\* C9: each field whose pattern does not match keeps its own default, and a
\* field whose pattern matches takes the value of its own match, whichever of
\* the other three patterns match.
C9_IndependentDefaults ==
    extracted =>
        /\ result.sentiment =
               IF sentiment_match(text).matched
               THEN Lower(sentiment_match(text).group[1]) ELSE "unknown"
        /\ result.confidence =
               IF confidence_match(text).matched
               THEN NumberAt(text, Min(ConfidencePlaces(text))) \o <<PERCENT>>
               ELSE <<"0", PERCENT>>
        /\ result.key_markers =
               IF markers_match(text).matched
               THEN MarkersOf(markers_match(text).group) ELSE <<>>
        /\ result.analysis =
               IF analysis_match(text).matched
               THEN Strip(analysis_match(text).group)
               ELSE <<"No analysis available">>

\* the confidence and analysis patterns match, the other two do not
C9_Witness ==
    /\ extracted
    /\ ~sentiment_match(text).matched
    /\ confidence_match(text).matched
    /\ ~markers_match(text).matched
    /\ analysis_match(text).matched
    /\ result.sentiment = "unknown"
    /\ result.confidence = <<"9", "0", PERCENT>>
    /\ result.key_markers = <<>>
    /\ result.analysis = <<"upbeat">>

----------------------------------------------------------------------------
(* Properties of process_task (specification Spec) *)

Returned(r) == req[r].pc = "returned"

\* process_task handed a response dictionary to its caller
Responded(r) == Returned(r) /\ req[r].outcome = "response"

C5_RunnerErrorCaught ==
    \A r \in DOMAIN req :
        (Returned(r) /\ req[r].raised # None) =>
            /\ req[r].outcome = "response"
            /\ req[r].response.status = "error"
            /\ req[r].response.data.error_type = req[r].raised[1].class

\* an exception raised in mid-stream, after an event was consumed
C5_Witness ==
    \E r \in DOMAIN req :
        /\ Returned(r)
        /\ req[r].raised # None
        /\ req[r].raised[1].class = "RuntimeError"
        /\ Len(req[r].raw_events) >= 1
        /\ req[r].response.status = "error"
        /\ req[r].response.data.error_type = "RuntimeError"

Max(S) == CHOOSE x \in S : \A y \in S : x >= y

\* the text of an event: that of its first part, empty when it has none
EventText(e) ==
    IF e.content # None /\ e.content[1].parts # <<>> THEN e.content[1].parts[1] ELSE <<>>

\* a final response with role "model"
IsFinalModel(e) == e.final /\ e.content # None /\ e.content[1].role = "model"

FinalModelEvents(evs) == {i \in 1..Len(evs) : IsFinalModel(evs[i])}

FinalModelTexts(evs) == {i \in FinalModelEvents(evs) : EventText(evs[i]) # <<>>}

Succeeded(r) == Responded(r) /\ req[r].response.status = "success"

\* C7 as stated: the message of a successful response is the text of the last
\* final model-authored event of the stream.
C7_LastFinalEventOriginal ==
    \A r \in DOMAIN req :
        (Succeeded(r) /\ FinalModelEvents(req[r].raw_events) # {}) =>
            req[r].response.message =
                EventText(req[r].raw_events[Max(FinalModelEvents(req[r].raw_events))])

\* C7 (amended): the message of a successful response is the text of the last
\* final model-authored event of the stream that has a non-empty text; the
\* text of no earlier event is returned in its place.
C7_LastFinalEvent ==
    \A r \in DOMAIN req :
        (Succeeded(r) /\ FinalModelTexts(req[r].raw_events) # {}) =>
            req[r].response.message =
                EventText(req[r].raw_events[Max(FinalModelTexts(req[r].raw_events))])

\* two final model events with different texts: the later one is returned
C7_Witness ==
    \E r \in DOMAIN req :
        /\ Succeeded(r)
        /\ Len(req[r].raw_events) = 2
        /\ FinalModelTexts(req[r].raw_events) = {1, 2}
        /\ EventText(req[r].raw_events[1]) = ReplyA
        /\ EventText(req[r].raw_events[2]) = ReplyB
        /\ req[r].response.message = ReplyB

\* C8: the session store holds exactly the keys that some call referenced,
\* and create_session was invoked exactly once for each of them.
C8_OneSessionPerKey ==
    /\ sessions = DOMAIN refs
    /\ \A k \in DOMAIN refs : Count(creates, k) = 1
    /\ DOMAIN creates = DOMAIN refs

\* a key referenced by two calls, created once, next to another session
C8_Witness ==
    /\ \E k \in DOMAIN refs : refs[k] >= 2 /\ Count(creates, k) = 1 /\ k \in sessions
    /\ Cardinality(sessions) >= 2

----------------------------------------------------------------------------
(* Properties of the chat application (specification SpecChat) *)

\* the exchange fails: requests.post raises, the status is an error status,
\* the body is no JSON, or the body is no JSON object
Failing(o) == o.kind = "raise" \/ o.status # 200 \/ o.body.kind # "object"

IsErrorEntry(m) ==
    /\ m.role = "assistant"
    /\ "sentiment_data" \notin DOMAIN m
    /\ m.content[1] \in { "Error: Could not connect to agent. ",
                          "Error: Invalid response format from agent.",
                          "Error: An unexpected error occurred. " }

\* C10: when send_message fails, it returns False and messages ends with the
\* user's message followed by one assistant entry carrying the error text.
C10_FailedExchangeShown ==
    (last # None /\ Failing(last[1].outcome)) =>
        /\ last[1].ret = FALSE
        /\ Len(messages) >= 2
        /\ messages[Len(messages) - 1] = [role |-> "user", content |-> last[1].message]
        /\ IsErrorEntry(messages[Len(messages)])

\* a body that is no JSON, after an earlier exchange
C10_Witness ==
    /\ last # None
    /\ last[1].outcome.kind = "response"
    /\ last[1].outcome.status = 200
    /\ last[1].outcome.body.kind = "invalid"
    /\ last[1].ret = FALSE
    /\ Len(messages) = 4
    /\ IsErrorEntry(messages[4])

----------------------------------------------------------------------------
(* Further properties of process_task (specification Spec) *)

AllDefaults ==
    [ sentiment |-> "unknown",
      confidence |-> <<"0", PERCENT>>,
      key_markers |-> <<>>,
      analysis |-> <<"No analysis available">> ]

\* C16: when the stream ends without raising and has no final model event
\* with a non-empty text (the empty stream included), the response has status
\* "success", message "(No response generated)" and the all-defaults record.
C16_NoResponseGenerated ==
    \A r \in DOMAIN req :
        (Returned(r) /\ req[r].raised = None /\ FinalModelTexts(req[r].raw_events) = {}) =>
            /\ req[r].outcome = "response"
            /\ req[r].response.status = "success"
            /\ req[r].response.message = <<"(No response generated)">>
            /\ req[r].response.data.sentiment_analysis = AllDefaults

\* a stream whose only final model event has an empty text
C16_Witness ==
    \E r \in DOMAIN req :
        /\ Succeeded(r)
        /\ Len(req[r].raw_events) = 2
        /\ FinalModelEvents(req[r].raw_events) # {}
        /\ FinalModelTexts(req[r].raw_events) = {}
        /\ req[r].response.message = <<"(No response generated)">>

\* the user a call with context user ctx runs for
ExpectedUser(ctx) == IF ctx = None THEN "default_a2a_user" ELSE ctx[1]

\* C17: the session of a call is the one keyed by its user and its session
\* id: it is in the store, created once, and the call found it (created none)
\* exactly when an earlier call used the same user and session id; a call
\* whose context has no user_id uses the key of user "default_a2a_user".
C17_KeyedByUser ==
    \A r \in DOMAIN req :
        req[r].pc # "idle" =>
            LET k == <<"sentiment_analyzer_a2a_app", ExpectedUser(req[r].ctx_user), req[r].session_id>>
            IN  /\ k \in sessions
                /\ Count(creates, k) = 1
                /\ req[r].found <=> Count(refs, k) >= 2
                /\ \A k2 \in sessions : (k2[3] = k[3] /\ k2[2] # k[2]) => Count(creates, k2) = 1

\* "alice" and "bob" each have their own session "s1", and a call without
\* user_id on "s1" gets a third one under the default user
C17_Witness ==
    /\ {<<"sentiment_analyzer_a2a_app", u, "s1">> : u \in {"alice", "bob", "default_a2a_user"}} \subseteq sessions
    /\ \A u \in {"alice", "bob", "default_a2a_user"} :
           Count(creates, <<"sentiment_analyzer_a2a_app", u, "s1">>) = 1
    /\ \E r \in DOMAIN req :
           req[r].pc # "idle" /\ req[r].ctx_user = None /\ req[r].session_id = "s1" /\ ~req[r].found

\* C19: in a successful response whose message came from a model event, the
\* structured data is the extraction of that very message.
C19_DataMatchesMessage ==
    \A r \in DOMAIN req :
        (Succeeded(r) /\ FinalModelTexts(req[r].raw_events) # {}) =>
            req[r].response.data.sentiment_analysis =
                extract_sentiment_data(req[r].response.message)

\* two model events with different texts: data and message are the later one's
C19_Witness ==
    \E r \in DOMAIN req :
        /\ Succeeded(r)
        /\ FinalModelTexts(req[r].raw_events) = {1, 2}
        /\ EventText(req[r].raw_events[1]) = ReplyA
        /\ req[r].response.message = ReplyB
        /\ req[r].response.data.sentiment_analysis.sentiment = "unknown"
        /\ req[r].response.data.sentiment_analysis.confidence = <<"8", "2", PERCENT>>

----------------------------------------------------------------------------
(* The shape of every extracted record (specification SpecExtract) *)

\* C15: in every output of _extract_sentiment_data, sentiment is one of the
\* lower-case values positive, negative, neutral, unknown; confidence is one
\* or more digits followed by exactly one "%"; key_markers is a list of
\* non-empty strings.
C15_OutputShape ==
    extracted =>
        /\ result.sentiment \in {"positive", "negative", "neutral", "unknown"}
        /\ Len(result.confidence) >= 2
        /\ result.confidence[Len(result.confidence)] = "%"
        /\ \A i \in 1..(Len(result.confidence) - 1) :
               result.confidence[i] \in {"0", "1", "2", "3", "4", "5", "6", "7", "8", "9"}
        /\ \A i \in 1..Len(result.key_markers) : result.key_markers[i] # <<>>

\* an upper-case label value, a confidence written without "%", and markers
C15_Witness ==
    /\ extracted
    /\ Contains(text, "NEGATIVE")
    /\ result.sentiment = "negative"
    /\ ~Contains(text, "%")
    /\ result.confidence = <<"8", "2", "%">>
    /\ Len(result.key_markers) >= 2

----------------------------------------------------------------------------
(* The shape of the chat history (specification SpecChat) *)

\* user entry, assistant entry, user entry, ... and an even length
Alternates(msgs) ==
    /\ Len(msgs) % 2 = 0
    /\ \A i \in 1..Len(msgs) :
           msgs[i].role = (IF i % 2 = 1 THEN "user" ELSE "assistant")

\* C20: messages always has even length and alternates user and assistant
\* entries; a send_message call appends exactly two entries, the user's
\* message and then one assistant entry; New Conversation empties the list
\* and replaces session_id and leaves user_id as it is.
C20_AlternatingHistory ==
    [][ /\ Alternates(messages')
        /\ (sends' = sends + 1) =>
               /\ Len(messages') = Len(messages) + 2
               /\ SubSeq(messages', 1, Len(messages)) = messages
               /\ messages'[Len(messages) + 1].role = "user"
               /\ messages'[Len(messages) + 2].role = "assistant"
               /\ chat_session_id' = chat_session_id
               /\ chat_user_id' = chat_user_id
        /\ (convs' = convs + 1) =>
               /\ messages' = <<>>
               /\ chat_session_id' # chat_session_id
               /\ chat_user_id' = chat_user_id
      ]_vars

\* a failed send, then a second send whose reply is invalid JSON
C20_Witness ==
    /\ sends = 2
    /\ Len(messages) = 4
    /\ "sentiment_data" \notin DOMAIN messages[2]
    /\ last # None
    /\ last[1].outcome.kind = "response"
    /\ last[1].outcome.body.kind = "invalid"
    /\ convs = 2

----------------------------------------------------------------------------
(* Exceptions at any step of process_task (specification SpecFaults) *)

\* C12: whatever step of process_task raises an exception (reading the
\* context, get_session, create_session, building the content, the runner or
\* its stream), the call returns a response with status "error" and the
\* exception does not reach the caller.
C12_EveryExceptionConverted ==
    \A r \in DOMAIN req :
        (Returned(r) /\ req[r].raised # None) =>
            /\ req[r].outcome = "response"
            /\ req[r].response.status = "error"

----------------------------------------------------------------------------
(* Concurrent requests (specification SpecConcurrent) *)

\* the requests in flight that use key k
InFlight(k) ==
    {r \in DOMAIN req :
        req[r].pc = "running" /\ <<A2A_APP_NAME, req[r].user_id, req[r].session_id>> = k}

\* C14: under every interleaving of concurrent process_task calls,
\* create_session is invoked at most once for a (user_id, session_id) key:
\* of the requests in flight on one key at most one has created the session,
\* and each of them runs on a session that is in the store.
C14_OneCreatePerKey ==
    /\ \A k \in DOMAIN creates : creates[k] <= 1
    /\ \A k \in DOMAIN refs :
           /\ Cardinality({r \in InFlight(k) : ~req[r].found}) <= 1
           /\ InFlight(k) # {} => k \in sessions

\* two requests are in flight on the same key at the same time: the first
\* created the session, the second found it
C14_Witness ==
    \E k \in DOMAIN refs :
        /\ Cardinality(InFlight(k)) >= 2
        /\ \E r \in InFlight(k) : ~req[r].found
        /\ \E r \in InFlight(k) : req[r].found /\ req[r].raw_events # <<>>
        /\ creates[k] = 1

----------------------------------------------------------------------------
(* The posts parsed from the Reddit agent's reply (specification SpecDash) *)

\* the last handler called send_to_reddit_scout and the reply had a text
FetchedText ==
    /\ Len(invoked) = 1
    /\ invoked[1].fn = "send_to_reddit_scout"
    /\ ~CoordinatorReply(invoked[1].outcome).failed
    /\ CoordinatorReply(invoked[1].outcome).text # None
    /\ CoordinatorReply(invoked[1].outcome).text[1] # <<>>

\* the reply text of the last send_to_reddit_scout call, trimmed line by line
ReplyLines ==
    LET lines == Split(CoordinatorReply(invoked[1].outcome).text[1], "\n")
    IN  [i \in 1..Len(lines) |-> Strip(lines[i])]

HasMarker(line) == Len(line) >= 2 /\ line[1] = "-" /\ line[2] = " "

IsHeading(line) == line # <<>> /\ line[1] \in {"Top posts from", "Here are"}

WithoutMarker(line) == SubSeq(line, 3, Len(line))

\* the entries of the lines that have the marker, in reply order
MarkedEntries ==
    LET marked == SelectSeq(ReplyLines, HasMarker)
    IN  [i \in 1..Len(marked) |-> WithoutMarker(marked[i])]

\* C18 as stated: the post list has exactly one entry per reply line that
\* begins, once trimmed, with "- ", without the marker and in reply order,
\* and no entry for a line without the marker.
C18_OnlyMarkedLinesOriginal ==
    (FetchedText /\ invoked[1].ret # None) => invoked[1].ret[1] = MarkedEntries

Kept(line) == HasMarker(line) \/ (line # <<>> /\ ~IsHeading(line))

\* the entries of all the lines that are kept, in reply order
KeptEntries ==
    LET kept == SelectSeq(ReplyLines, Kept)
    IN  [i \in 1..Len(kept) |->
            IF HasMarker(kept[i]) THEN WithoutMarker(kept[i]) ELSE kept[i]]

\* C18, amended: the post list has one entry per non-empty trimmed line of
\* the reply, in reply order: a line that begins with "- " gives the line
\* without the marker, any other line is kept whole unless it starts with
\* "Top posts from" or "Here are"; when there is no entry, None is returned.
C18_PostsParsed ==
    FetchedText =>
        IF KeptEntries = <<>>
        THEN invoked[1].ret = None
        ELSE invoked[1].ret = Some(KeptEntries) /\ reddit_posts = KeptEntries

\* a reply with a heading, a marked line and a line without the marker
C18_Witness ==
    /\ FetchedText
    /\ Len(ReplyLines) = 3
    /\ IsHeading(ReplyLines[1])
    /\ HasMarker(ReplyLines[2])
    /\ ~HasMarker(ReplyLines[3]) /\ ReplyLines[3] # <<>>
    /\ reddit_posts = MarkedEntries \o <<ReplyLines[3]>>

----------------------------------------------------------------------------
(* Properties of all three programs (specification SpecAll) *)

LogicalError(o) ==
    /\ o.kind = "response"
    /\ o.status = 200
    /\ o.body.kind = "object"
    /\ "status" \in DOMAIN o.body.value
    /\ o.body.value.status = "error"
    /\ "sentiment_analysis" \notin DOMAIN Get(o.body.value, "data", EmptyDict)

\* the error text is displayed, on the page or in an expander, and no
\* sentiment result is drawn
ShownAsError(view, errorText) ==
    /\ errorText \in view.visible \cup view.expandable
    /\ ~view.card

\* C13: when the sentiment service answers HTTP 200 with a logical error, both
\* the chat app and the dashboard show the service's error text to the user
\* and do not render an ordinary "unknown" sentiment result.
C13_LogicalErrorShown ==
    /\ (last # None /\ LogicalError(last[1].outcome)) =>
           ShownAsError(RenderMessage(messages[Len(messages)]),
                        last[1].outcome.body.value.message)
    /\ (invoked # <<>>
        /\ invoked[Len(invoked)].fn = "send_to_sentiment_analyzer"
        /\ LogicalError(invoked[Len(invoked)].outcome)) =>
           ShownAsError(AnalysisTab(current_analysis),
                        invoked[Len(invoked)].outcome.body.value.message)

----------------------------------------------------------------------------
(* What a failed call leaves alone in the dashboard (specification SpecDash) *)

\* requests.post raises, or the status of the response is not 200
HttpFailed(o) == o.kind = "raise" \/ o.status # 200

\* the body of a coordinator response makes the try block raise: it is not
\* JSON, or a model event of the array has an empty list of parts
RaisesOnEvents(o) ==
    \/ o.body.kind = "invalid"
    \/ /\ o.body.kind = "array"
       /\ \E i \in 1..Len(o.body.value) :
              LET e == o.body.value[i]
              IN  /\ "content" \in DOMAIN e
                  /\ e.content.role = "model"
                  /\ e.content.parts = <<>>

\* no event of the array is a model event whose first part has a text
NoModelText(o) ==
    /\ o.body.kind = "array"
    /\ \A i \in 1..Len(o.body.value) :
           LET e == o.body.value[i]
           IN  ~ /\ "content" \in DOMAIN e
                 /\ e.content.role = "model"
                 /\ e.content.parts # <<>>
                 /\ "text" \in DOMAIN e.content.parts[1]
                 /\ e.content.parts[1].text # <<>>

\* the reply has a text, and none of its lines gives a post
ZeroPosts(o) ==
    LET reply == CoordinatorReply(o)
        lines == IF reply.text = None THEN <<>> ELSE Split(reply.text[1], "\n")
    IN  /\ ~reply.failed
        /\ reply.text # None
        /\ reply.text[1] # <<>>
        /\ \A i \in 1..Len(lines) : ~Kept(Strip(lines[i]))

\* the body of an A2A response makes the try block raise: it is not JSON, or
\* it is JSON but not an object
RaisesOnBody(o) == o.body.kind # "object"

\* C21: a failed fetch never clobbers earlier results.  send_to_reddit_scout
\* leaves reddit_posts unchanged and returns None when the status is not 200,
\* an exception is raised, the reply has no model text or parsing yields no
\* post; send_to_sentiment_analyzer leaves current_analysis unchanged and
\* send_to_speaker leaves audio_file unchanged on a status other than 200 or
\* an exception; reddit_posts is replaced only by a non-empty list.
C21_FailedFetchKeepsResults ==
    [][ /\ \A i \in 1..Len(invoked') :
               LET c == invoked'[i]
               IN  /\ c.fn = "send_to_reddit_scout" =>
                          /\ ( \/ HttpFailed(c.outcome)
                               \/ RaisesOnEvents(c.outcome)
                               \/ NoModelText(c.outcome)
                               \/ ZeroPosts(c.outcome) ) =>
                                 (reddit_posts' = reddit_posts /\ c.ret = None)
                          /\ c.ret = None => reddit_posts' = reddit_posts
                   /\ c.fn = "send_to_sentiment_analyzer" =>
                          ( (HttpFailed(c.outcome) \/ RaisesOnBody(c.outcome)) =>
                                (current_analysis' = current_analysis /\ c.ret = None) )
                   /\ c.fn = "send_to_speaker" =>
                          ( (HttpFailed(c.outcome) \/ RaisesOnBody(c.outcome)) =>
                                (audio_file' = audio_file /\ c.ret = None) )
        /\ reddit_posts' # reddit_posts => reddit_posts' # <<>>
      ]_vars

\* posts were fetched, then a second fetch got a reply with a text that has
\* no post in it: the earlier posts are still there
C21_Witness ==
    /\ clicks = 2
    /\ FetchedText
    /\ KeptEntries = <<>>
    /\ invoked[1].ret = None
    /\ invoked[1].notice = "warning"
    /\ reddit_posts # <<>>

----------------------------------------------------------------------------
(* Switching sessions in the dashboard (specification SpecDash) *)

\* the create request returned HTTP 200
Confirmed(o) == o.kind = "response" /\ o.status = 200

\* the identifiers time.time() can give from the second of sid on
FromSecondOf(sid) == {SessionAt(t) : t \in SecondOf(sid)..4}

\* C22: create_adk_session assigns the new session_id and empties messages
\* if and only if the create request returns HTTP 200; on any other status
\* or on an exception it returns False and session_id, messages and the rest
\* of the session state are unchanged, so session_id changes in no step but
\* a confirmed creation.
C22_SwitchOnlyWhenConfirmed ==
    [][ /\ \A i \in 1..Len(invoked') :
               invoked'[i].fn = "create_adk_session" =>
                   IF Confirmed(invoked'[i].outcome)
                   THEN /\ invoked'[i].ret = TRUE
                        /\ dash_session_id' \in FromSecondOf(dash_session_id)
                        /\ dash_messages' = <<>>
                   ELSE /\ invoked'[i].ret = FALSE
                        /\ dash_session_id' = dash_session_id
                        /\ dash_messages' = dash_messages
                        /\ reddit_posts' = reddit_posts
                        /\ current_summary' = current_summary
                        /\ current_analysis' = current_analysis
                        /\ audio_file' = audio_file
        /\ dash_session_id' # dash_session_id =>
               /\ Len(invoked') = 1
               /\ invoked'[1].fn = "create_adk_session"
               /\ Confirmed(invoked'[1].outcome)
      ]_vars

\* a session was created and confirmed, then a second creation was answered
\* with another status: the dashboard stays on the confirmed session
C22_Witness ==
    /\ clicks = 2
    /\ Len(invoked) = 1
    /\ invoked[1].fn = "create_adk_session"
    /\ invoked[1].outcome.kind = "response"
    /\ invoked[1].outcome.status = 201
    /\ invoked[1].ret = FALSE
    /\ dash_session_id = SessionAt(2)

====
